---- MODULE Spec2Model ----
(***************************************************************************)
(* wallpapermod: the submission classification engine.                     *)
(*                                                                         *)
(* A title is a sequence of characters.  ASCII characters are one-letter   *)
(* strings; the three non-ASCII characters that matter to the title        *)
(* pattern are named: "MULT" is U+00D7 (the multiplication sign),          *)
(* "A_TILDE" / "a_tilde" are U+00C3 / U+00E3 and "EM_DASH" is U+2014.      *)
(***************************************************************************)
EXTENDS Integers, Sequences, FiniteSets, TLC

(***************************************************************************)
(* Bounds of the model.                                                    *)
(***************************************************************************)
MaxPieces == 2
MaxImages == 3
MaxCrosspostDepth == 1
MaxTitlePieces == 5
MaxListing == 2
MaxRuns == 2

(***************************************************************************)
(* Python's None for an optional integer or an unset column.               *)
(***************************************************************************)
None == -1

\* A column that has not been assigned and has no default
Unset == "UNSET"

(***************************************************************************)
(* const.py                                                                *)
(***************************************************************************)
ImageResultValue ==
    [LARGER                 |-> "IMAGE LARGER THAN TITLE",
     SMALLER                |-> "IMAGE SMALLER THAN TITLE",
     UNSUPPORTED_MEDIA_TYPE |-> "UNSUPPORTED MEDIA TYPE",
     VALID                  |-> "VALID"]

ImageResult == DOMAIN ImageResultValue

PostResultValue ==
    [LARGER                   |-> ImageResultValue.LARGER,
     NO_RESOLUTION            |-> "NO RESOLUTION IN TITLE",
     SMALLER                  |-> ImageResultValue.SMALLER,
     UNSUPPORTED_MEDIA_TYPE   |-> ImageResultValue.UNSUPPORTED_MEDIA_TYPE,
     UNSUPPORTED_RES          |-> "UNSUPPORTED RESOLUTION",
     UNSUPPORTED_TYPE_OR_LINK |-> "UNSUPPORTED POST TYPE OR LINK",
     VALID                    |-> "VALID"]

PostResult == DOMAIN PostResultValue

\* PostResult(value), ImageResult(value): the member that carries the value
PostResultOf(value) == CHOOSE m \in PostResult : PostResultValue[m] = value

ImageResultOf(value) == CHOOSE m \in ImageResult : ImageResultValue[m] = value

PostType == {"GALLERY", "IMAGE", "UNKNOWN"}

SUPPORTED_FORMATS == {"BMP", "GIF", "JPEG", "PNG", "WEBP"}

(***************************************************************************)
(* Characters and int().                                                   *)
(***************************************************************************)
DigitChars == <<"0", "1", "2", "3", "4", "5", "6", "7", "8", "9">>

IsDigit(c) == \E i \in 1..Len(DigitChars) : DigitChars[i] = c

DigitVal(c) == (CHOOSE i \in 1..Len(DigitChars) : DigitChars[i] = c) - 1

RECURSIVE int(_)
int(s) ==
    IF s = <<>> THEN 0
    ELSE 10 * int(SubSeq(s, 1, Len(s) - 1)) + DigitVal(s[Len(s)])

\* \s, restricted to the characters titles are built from
Whitespace == {" "}

RECURSIVE lstrip(_)
lstrip(s) ==
    IF s # <<>> /\ Head(s) \in Whitespace THEN lstrip(Tail(s)) ELSE s

RECURSIVE rstrip(_)
rstrip(s) ==
    IF s # <<>> /\ s[Len(s)] \in Whitespace
    THEN rstrip(SubSeq(s, 1, Len(s) - 1))
    ELSE s

strip(s) == rstrip(lstrip(s))

(***************************************************************************)
(* Submission._res_pattern, compiled with IGNORECASE | VERBOSE.            *)
(* The separator class is written  x * U+00C3 U+2014  in the source file;  *)
(* IGNORECASE adds X and U+00E3.  U+00D7 is not in it.                     *)
(***************************************************************************)
OpenBrackets == {"[", "(", "{"}

CloseBrackets == {"]", ")", "}"}

XLike == {"x", "X", "*", "A_TILDE", "a_tilde", "EM_DASH"}

CharAt(t, i) == IF i >= 1 /\ i <= Len(t) THEN t[i] ELSE "EOS"

\* \s? (greedy; what follows is never whitespace, so there is no backtracking)
OptSpace(t, i) == IF CharAt(t, i) \in Whitespace THEN i + 1 ELSE i

\* [0-9]+ from i: the index after the run of digits
RECURSIVE DigitRun(_, _)
DigitRun(t, i) == IF IsDigit(CharAt(t, i)) THEN DigitRun(t, i + 1) ELSE i

\* A match of the pattern that starts at index i, or ok = FALSE.
res_pattern(t, i) ==
    LET w1 == OptSpace(t, i + 1)
        w2 == DigitRun(t, w1)
        sp == OptSpace(t, w2)
        h1 == OptSpace(t, sp + 1)
        h2 == DigitRun(t, h1)
        cl == OptSpace(t, h2)
    IN  IF /\ CharAt(t, i) \in OpenBrackets
           /\ w2 > w1
           /\ CharAt(t, sp) \in XLike
           /\ h2 > h1
           /\ CharAt(t, cl) \in CloseBrackets
        THEN [ok |-> TRUE, end |-> cl,
              g1 |-> SubSeq(t, i, cl),
              g2 |-> SubSeq(t, w1, w2 - 1),
              g3 |-> SubSeq(t, h1, h2 - 1)]
        ELSE [ok |-> FALSE, end |-> 0, g1 |-> <<>>, g2 |-> <<>>, g3 |-> <<>>]

\* re.split(pattern, t): text, then (group 1, group 2, group 3, text) per match.
\* pos is where the pending text starts, i the index the search has reached.
RECURSIVE re_split_from(_, _, _)
re_split_from(t, pos, i) ==
    IF i > Len(t) THEN << SubSeq(t, pos, Len(t)) >>
    ELSE LET m == res_pattern(t, i)
         IN  IF m.ok
             THEN << SubSeq(t, pos, i - 1), m.g1, m.g2, m.g3 >>
                      \o re_split_from(t, m.end + 1, m.end + 1)
             ELSE re_split_from(t, pos, i + 1)

re_split(t) == re_split_from(t, 1, 1)

\* re.findall(pattern, t): one tuple (group 1, group 2, group 3) per match
RECURSIVE re_findall_from(_, _)
re_findall_from(t, i) ==
    IF i > Len(t) THEN <<>>
    ELSE LET m == res_pattern(t, i)
         IN  IF m.ok
             THEN << << m.g1, m.g2, m.g3 >> >> \o re_findall_from(t, m.end + 1)
             ELSE re_findall_from(t, i + 1)

re_findall(t) == re_findall_from(t, 1)

(***************************************************************************)
(* _TitleToken and Submission.parse_title                                  *)
(***************************************************************************)
\* Variant: a token keeps its text without the surrounding whitespace
TitleToken_stripped(value, width, height, scale) ==
    [value |-> strip(value), width |-> width, height |-> height, scale |-> scale]

TitleToken(value, width, height, scale) ==
    [value |-> value, width |-> width, height |-> height, scale |-> scale]

\* for scale in range(1, 4): if (w // scale, h) in known_good_rezzes: ... break
\* else: scale 0
RECURSIVE scale_loop(_, _, _, _)
scale_loop(w, h, known_good_rezzes, scale) ==
    IF scale >= 4 THEN 0
    ELSE IF << w \div scale, h >> \in known_good_rezzes THEN scale
    ELSE scale_loop(w, h, known_good_rezzes, scale + 1)

\* Variant: range(1, 5), one scale too many
RECURSIVE scale_loop_to_4(_, _, _, _)
scale_loop_to_4(w, h, known_good_rezzes, scale) ==
    IF scale >= 5 THEN 0
    ELSE IF << w \div scale, h >> \in known_good_rezzes THEN scale
    ELSE scale_loop_to_4(w, h, known_good_rezzes, scale + 1)

title_scale_to_4(w, h, known_good_rezzes) ==
    scale_loop_to_4(w, h, known_good_rezzes, 1)

\* Variant: the scales are tried from 3 down to 1
RECURSIVE scale_loop_down(_, _, _, _)
scale_loop_down(w, h, known_good_rezzes, scale) ==
    IF scale <= 0 THEN 0
    ELSE IF << w \div scale, h >> \in known_good_rezzes THEN scale
    ELSE scale_loop_down(w, h, known_good_rezzes, scale - 1)

title_scale_down(w, h, known_good_rezzes) ==
    scale_loop_down(w, h, known_good_rezzes, 3)

title_scale(w, h, known_good_rezzes) == scale_loop(w, h, known_good_rezzes, 1)

\* Variant: the pair is recorded divided by its scale
good_rezzes_add_scaled(good_rezzes, w, h, scale) ==
    good_rezzes \cup {<< w \div scale, h >>}

\* good_rezzes.add((w, h)), done when a scale was accepted
good_rezzes_add(good_rezzes, w, h, scale) == good_rezzes \cup {<< w, h >>}

\* One turn of `while len(match)`: pops res_str, w, h, plaintext.
\* Variant: a pair that is already listed is not listed again
rezzes_append_unique(rezzes, w, h) ==
    IF \E k \in 1..Len(rezzes) : rezzes[k] = << w, h >>
    THEN rezzes
    ELSE Append(rezzes, << w, h >>)

\* rezzes.append((w, h))
rezzes_append(rezzes, w, h) == Append(rezzes, << w, h >>)

RECURSIVE parse_loop(_, _, _)
parse_loop(match, known_good_rezzes, acc) ==
    IF match = <<>> THEN acc
    ELSE LET res_str   == match[1]
             w         == int(match[2])
             h         == int(match[3])
             plaintext == match[4]
             scale     == title_scale(w, h, known_good_rezzes)
         IN  parse_loop(
                 SubSeq(match, 5, Len(match)),
                 known_good_rezzes,
                 [res |-> rezzes_append(acc.res, w, h),
                  good_rezzes |->
                      IF scale # 0
                      THEN good_rezzes_add(acc.good_rezzes, w, h, scale)
                      ELSE acc.good_rezzes,
                  title_tokens |->
                      Append(acc.title_tokens, TitleToken(res_str, w, h, scale))
                      \o (IF plaintext # <<>>
                          THEN << TitleToken(plaintext, None, None, None) >>
                          ELSE <<>>)])

parse_title(title, known_good_rezzes) ==
    LET match == re_split(title)
    IN  IF Len(match) = 1
        THEN [res |-> <<>>, good_rezzes |-> {},
              title_tokens |-> << TitleToken(match[1], None, None, None) >>]
        ELSE IF (Len(match) - 1) % 4 = 0
        THEN parse_loop(
                 Tail(match),
                 known_good_rezzes,
                 [res |-> <<>>, good_rezzes |-> {},
                  title_tokens |->
                      IF match[1] # <<>>
                      THEN << TitleToken(match[1], None, None, None) >>
                      ELSE <<>>])
        ELSE [res |-> <<>>, good_rezzes |-> {}, title_tokens |-> <<>>]

(***************************************************************************)
(* Submission.title_to_res_pairs.  int(str) accepts digits with whitespace *)
(* around them and raises ValueError for any other text the titles here    *)
(* can hold.                                                               *)
(***************************************************************************)
int_accepts(s) ==
    LET v == strip(s)
    IN  v # <<>> /\ \A k \in 1..Len(v) : IsDigit(v[k])

\* for a, b, *_ in matches: rezzes.append((int(a), int(b)))
RECURSIVE pairs_loop(_, _)
pairs_loop(matches, rezzes) ==
    IF matches = <<>> THEN [raised |-> "", rezzes |-> rezzes]
    ELSE LET a == matches[1][1]
             b == matches[1][2]
         IN  IF int_accepts(a) /\ int_accepts(b)
             THEN pairs_loop(Tail(matches),
                             Append(rezzes, << int(strip(a)), int(strip(b)) >>))
             ELSE [raised |-> "ValueError", rezzes |-> <<>>]

title_to_res_pairs(title) == pairs_loop(re_findall(title), <<>>)

\* title_to_res_pairs has not been called
NoPairs == [raised |-> "", rezzes |-> <<>>]

(***************************************************************************)
(* The posts check_submission is called with.                              *)
(***************************************************************************)
Pieces ==
    { << " ", "a" >>,
      << "[", "2", "x", "2", "]" >>,
      << "(", "4", "*", "1", ")" >>,
      << "[", "9", "x", "1", "]" >> }

RECURSIVE TitlesUpTo(_)
TitlesUpTo(n) ==
    IF n = 0 THEN { <<>> }
    ELSE LET T == TitlesUpTo(n - 1)
         IN  T \cup { t \o p : t \in T, p \in Pieces }

Titles == TitlesUpTo(MaxPieces)

\* What the resolutions wiki page may list
KnownGoodSets ==
    { { << 2, 1 >>, << 2, 2 >> },
      { << 2, 1 >>, << 2, 2 >>, << 4, 1 >> },
      { << 3, 1 >> } }

Moderators == {"mod"}

Authors == {"mod", "user"}

PostIDs == {"p1"}

RECURSIVE SeqsUpTo(_, _)
SeqsUpTo(S, n) ==
    IF n = 0 THEN { <<>> }
    ELSE LET T == SeqsUpTo(S, n - 1)
         IN  T \cup { Append(t, x) : t \in T, x \in S }

\* A link: the attributes of a praw submission that get_image_urls reads.
\* crosspost_parent is <<>> (no such attribute) or << the parent's link >>;
\* items is gallery_data/media_metadata statuses, or the images an album holds.
Link(parent, is_gallery, post_hint, domain, url, items) ==
    [crosspost_parent |-> parent, is_gallery |-> is_gallery,
     post_hint |-> post_hint, domain |-> domain, url |-> url, items |-> items]

GalleryLinks ==
    { Link(<<>>, TRUE, "", "reddit.com", "", items) :
          items \in SeqsUpTo({"valid", "failed"}, MaxImages) }

ImageLinks ==
    { Link(<<>>, FALSE, "image", "i.imgur.com", "", <<>>),
      Link(<<>>, FALSE, "", "i.redd.it", "", <<>>) }

ImgurLinks ==
    { Link(<<>>, FALSE, "", "imgur.com", "/a/hash", items) :
          items \in SeqsUpTo({"valid"}, MaxImages) }
    \cup { Link(<<>>, FALSE, "", "imgur.com", "/t/topic/hash", << "valid" >>) }
    \cup { Link(<<>>, FALSE, "", "imgur.com", url, <<>>) : url \in {"/hash", "/"} }

FlickrLinks ==
    { Link(<<>>, FALSE, "", "flickr.com", url, <<>>) :
          url \in {"/photos/user/1", "/"} }

OtherLinks == { Link(<<>>, FALSE, "", "example.com", "", <<>>) }

BaseLinks == GalleryLinks \cup ImageLinks \cup ImgurLinks \cup FlickrLinks \cup OtherLinks

\* The posts a crosspost may point to
CrosspostParents ==
    { l \in BaseLinks : Len(l.items) <= 1 }

RECURSIVE LinksUpTo(_)
LinksUpTo(depth) ==
    IF depth = 0 THEN BaseLinks
    ELSE LET L == LinksUpTo(depth - 1)
         IN  L \cup { Link(<< l >>, FALSE, "", "reddit.com", "", <<>>) :
                          l \in { k \in L : k \in CrosspostParents
                                             \/ k.crosspost_parent # <<>> } }

Links == LinksUpTo(MaxCrosspostDepth)

Posts == [id : PostIDs, author : Authors, title : Titles, link : Links]

\* What the response to session.get(url) holds: a raster image PIL identifies,
\* or something else (here a vector drawing of nominal size 2 by 1).
Payloads ==
    { [format |-> "JPEG", width |-> d[1], height |-> d[2]] :
          d \in { << 2, 2 >>, << 3, 2 >>, << 2, 1 >> } }
    \cup { [format |-> "SVG", width |-> 2, height |-> 1] }

(***************************************************************************)
(* Submission.from_post and the Image constructor.  The attribute of a     *)
(* column that has not been assigned reads None on the object: type and    *)
(* result of a Submission, format, x, y and result of an Image.  The       *)
(* default a Column declares is applied when the row is inserted.          *)
(***************************************************************************)
from_post(post, known_good_rezzes) ==
    LET title  == strip(post.title)
        parsed == parse_title(title, known_good_rezzes)
    IN  [postID        |-> post.id,
         title         |-> title,
         author        |-> post.author,
         res           |-> parsed.res,
         title_tokens  |-> parsed.title_tokens,
         good_rezzes   |-> parsed.good_rezzes,
         type          |-> Unset,
         result        |-> Unset,
         dateProcessed |-> FALSE,
         response      |-> FALSE,
         images        |-> <<>>]

NoSubmission ==
    [postID |-> "", title |-> <<>>, author |-> "", res |-> <<>>,
     title_tokens |-> <<>>, good_rezzes |-> {}, type |-> Unset,
     result |-> Unset, dateProcessed |-> FALSE, response |-> FALSE,
     images |-> <<>>]

NoPost == [id |-> "", author |-> "", title |-> <<>>,
           link |-> Link(<<>>, FALSE, "", "", "", <<>>)]

Image(postID, url) ==
    [postID |-> postID, url |-> url, format |-> Unset, x |-> None, y |-> None,
     result |-> Unset]

(***************************************************************************)
(* App.get_image_urls, Imgur.get_image_urls, Flickr.get_image_urls.        *)
(* The outcome is an ImageURLCollection (urls a str or a list, and the     *)
(* special type) or the exception that leaves the call.                    *)
(***************************************************************************)
Resolved(is_str, urls, special_type) ==
    [raised |-> "", postresult |-> "", is_str |-> is_str, urls |-> urls,
     special_type |-> special_type]

Raised(exception, postresult) ==
    [raised |-> exception, postresult |-> postresult, is_str |-> FALSE,
     urls |-> <<>>, special_type |-> ""]

\* The urls of the media items whose status is "valid", in gallery order
RECURSIVE gallery_urls(_, _)
gallery_urls(items, k) ==
    IF k > Len(items) THEN <<>>
    ELSE (IF items[k] = "valid" THEN << k >> ELSE <<>>) \o gallery_urls(items, k + 1)

\* Imgur.get_image_urls: /a/<hash> and /t/<topic>/<hash> are albums, /<hash> is
\* one image, anything else raises ValueError
Imgur_get_image_urls(link) ==
    IF link.url \in {"/a/hash", "/t/topic/hash"}
    THEN Resolved(FALSE, gallery_urls(link.items, 1), "Imgur")
    ELSE IF link.url = "/hash"
    THEN Resolved(TRUE, << 1 >>, "Imgur")
    ELSE Raised("ValueError", "")

\* Flickr.get_image_urls: /photos/<user>/<id> goes to _get_single_image_url,
\* which indexes the key string it was constructed with by "flickr"
Flickr_get_image_urls(link) ==
    IF link.url = "/photos/user/1"
    THEN Raised("TypeError", "")
    ELSE Raised("ValueError", "")

\* What the call of breakpoint() in the last branch does: the hook returns
\* (PYTHONBREAKPOINT=0, or the debugger is told to continue) or the debugger is
\* left and raises BdbQuit (as it does when its input is at end of file).
BreakpointHooks == {"return", "quit"}

RECURSIVE get_image_urls(_, _)
get_image_urls(link, hook) ==
    IF link.crosspost_parent # <<>>
    THEN get_image_urls(link.crosspost_parent[1], hook)
    ELSE IF link.is_gallery
    THEN Resolved(FALSE, gallery_urls(link.items, 1), "")
    ELSE IF link.post_hint = "image" \/ link.domain = "i.redd.it"
    THEN Resolved(TRUE, << 1 >>, "")
    ELSE IF link.domain = "imgur.com"
    THEN Imgur_get_image_urls(link)
    ELSE IF link.domain = "flickr.com"
    THEN Flickr_get_image_urls(link)
    ELSE IF hook = "quit"
    THEN Raised("BdbQuit", "")
    ELSE Raised("PostResultError", "UNSUPPORTED_TYPE_OR_LINK")

(***************************************************************************)
(* App.check_submission: the guards of the try block and its handler       *)
(***************************************************************************)
\* Variant: the handler files the post as a single image
except_PostResultError_as_image(submission, postresult) ==
    [submission EXCEPT !.result = postresult, !.type = "IMAGE"]

\* except PostResultError as exc: the result and the type it assigns
except_PostResultError(submission, postresult) ==
    [submission EXCEPT !.result = postresult, !.type = "UNKNOWN"]

\* Variant: the loop over the urls ends at the first image that is not accepted
more_images_until_rejected(images, image_urls) ==
    /\ Len(images) < Len(image_urls)
    /\ IF Len(images) = 0 THEN TRUE
       ELSE images[Len(images)].result
                \notin {"UNSUPPORTED_MEDIA_TYPE", "SMALLER"}

\* Variant: only the first url is checked
more_images_first_only(images, image_urls) ==
    Len(images) < Len(image_urls) /\ images = <<>>

\* for i, image_url in enumerate(image_urls) (one pass for a str): a url is left
more_images(images, image_urls) == Len(images) < Len(image_urls)

\* Variant: the guard on an empty res is missing
resolution_guard_good_only(res, good_rezzes) ==
    IF Cardinality(good_rezzes) = 0 THEN "UNSUPPORTED_RES" ELSE ""

\* The PostResultError the first two statements of the try block raise, or ""
resolution_guard(res, good_rezzes) ==
    IF res = <<>> THEN "NO_RESOLUTION"
    ELSE IF Cardinality(good_rezzes) = 0 THEN "UNSUPPORTED_RES"
    ELSE ""

(***************************************************************************)
(* App.check_image                                                         *)
(***************************************************************************)
\* Variant: a decoded image is given no result before the comparison
open_image_no_valid(image, payload) ==
    IF payload.format \in SUPPORTED_FORMATS
    THEN [image EXCEPT !.x = payload.width, !.y = payload.height,
                       !.format = payload.format]
    ELSE [image EXCEPT !.result = "UNSUPPORTED_MEDIA_TYPE"]

\* PImage.open(image_resp.raw, formats=SUPPORTED_FORMATS) and what follows
\* up to image.result = ImageResult.VALID
open_image(image, payload) ==
    IF payload.format \in SUPPORTED_FORMATS
    THEN [image EXCEPT !.x = payload.width, !.y = payload.height,
                       !.format = payload.format, !.result = "VALID"]
    ELSE [image EXCEPT !.result = "UNSUPPORTED_MEDIA_TYPE"]

\* Variant: every good resolution has to be dominated
satisfied_by_all(image, good_rezzes) ==
    \A r \in good_rezzes : image.x >= r[1] /\ image.y >= r[2]

\* the loop over good_rezzes that sets `satisfied`
satisfied(image, good_rezzes) ==
    \E r \in good_rezzes : image.x >= r[1] /\ image.y >= r[2]

\* Variant: the membership test is missing, an exact match counts as dominating
compare_image_no_exact(image, good_rezzes) ==
    IF \E r \in good_rezzes : image.x >= r[1] /\ image.y >= r[2]
    THEN [image EXCEPT !.result = "LARGER"]
    ELSE [image EXCEPT !.result = "SMALLER"]

compare_image(image, good_rezzes) ==
    IF << image.x, image.y >> \notin good_rezzes
    THEN IF satisfied(image, good_rezzes)
         THEN [image EXCEPT !.result = "LARGER"]
         ELSE [image EXCEPT !.result = "SMALLER"]
    ELSE image

(***************************************************************************)
(* App.check_submission: the aggregation of the else branch                *)
(***************************************************************************)
\* Variant: UNSUPPORTED_MEDIA_TYPE ranked above SMALLER
hierarchy_swapped ==
    [VALID |-> 0, LARGER |-> 1, UNSUPPORTED_MEDIA_TYPE |-> 3, SMALLER |-> 2]

hierarchy == [VALID |-> 0, LARGER |-> 1, UNSUPPORTED_MEDIA_TYPE |-> 2, SMALLER |-> 3]

\* Variant: any different score replaces the current one
trumps_if_different(new_score, current_score) == new_score # current_score

\* new_score > current_score
trumps(new_score, current_score) == new_score > current_score

RECURSIVE aggregate_loop(_, _, _)
aggregate_loop(images, k, result) ==
    IF k > Len(images) THEN result
    ELSE LET current_score == hierarchy[ImageResultOf(PostResultValue[result])]
             new_score     == hierarchy[images[k].result]
         IN  aggregate_loop(
                 images, k + 1,
                 IF trumps(new_score, current_score)
                 THEN PostResultOf(ImageResultValue[images[k].result])
                 ELSE result)

aggregate(images) == aggregate_loop(images, 1, "VALID")

(***************************************************************************)
(* App.respond / Responder.make_response: a response text exists for these *)
(***************************************************************************)
responses == {"NO_RESOLUTION", "UNSUPPORTED_RES", "LARGER", "SMALLER"}

respond(submission) ==
    IF submission.result \in responses
    THEN [submission EXCEPT !.response = TRUE]
    ELSE submission

\* Column(default=...): the value an INSERT stores for the attribute
\* (unassigned is how the unassigned attribute reads)
column_default(value, unassigned, default) ==
    IF value = unassigned THEN default ELSE value

\* The row DB.add / DB.commit write for a submission and, by the cascade of
\* the relationship, for its images
Row(submission) ==
    [postID |-> submission.postID, result |-> submission.result,
     type |-> column_default(submission.type, Unset, "UNKNOWN"),
     images |-> [k \in 1..Len(submission.images) |->
                    [submission.images[k] EXCEPT
                         !.format = column_default(@, Unset, ""),
                         !.x = column_default(@, None, 0),
                         !.y = column_default(@, None, 0)]]]

\* The submissions table when the program starts: empty, or holding the
\* record of a post an earlier run has processed
StoredTables ==
    { {}, { [postID |-> "p1", result |-> "VALID", type |-> "IMAGE",
             images |-> << [postID |-> "p1", url |-> 1, format |-> "JPEG",
                            x |-> 2, y |-> 1, result |-> "VALID"] >>] } }

(***************************************************************************)
(* State                                                                   *)
(***************************************************************************)
VARIABLES
    rezzes,      \* App.rezzes, the known-good resolutions
    moderators,  \* App.moderators
    db,          \* the rows of the submissions table
    post,        \* the post check_submission was called with
    submission,  \* the Submission check_submission builds
    image_urls,  \* the urls get_image_urls returned
    fetched,     \* what session.get returned for each Image, in order
    pc,          \* where check_submission is
    exc,         \* the exception that left check_submission, or ""
    listing,     \* the posts subreddit.new() yields, newest first
    loop_i,      \* _run_loop: i, the index of the next post of the listing
    config,      \* Config.count and Config.stop_after
    calls,       \* the ids of the posts this run has called check_submission on
    outcomes,    \* what each call of check_submission that is over has left
    runs,        \* how many times the program has been started
    pairs        \* what title_to_res_pairs returned

run_vars == << listing, loop_i, config, calls, outcomes, runs >>

vars == << rezzes, moderators, db, post, submission, image_urls, fetched, pc, exc,
           run_vars, pairs >>

\* No listing has been retrieved: the program was given no loop to run
NoConfig ==
    [count |-> 0, stop_after |-> [kind |-> "none"], drop |-> {}, posts |-> <<>>]

NoRun ==
    /\ listing = <<>>
    /\ loop_i = 0
    /\ config = NoConfig
    /\ calls = <<>>
    /\ outcomes = <<>>
    /\ runs = 1

Init ==
    /\ rezzes \in KnownGoodSets
    /\ moderators = Moderators
    /\ db \in StoredTables
    /\ post = NoPost
    /\ submission = NoSubmission
    /\ image_urls = <<>>
    /\ fetched = <<>>
    /\ pc = "idle"
    /\ exc = ""
    /\ NoRun
    /\ pairs = NoPairs

\* Variant: the query filters on the author instead of the post id
existing_submission_by_author == \E row \in db : row.postID = submission.author

existing_submission == \E row \in db : row.postID = submission.postID

(***************************************************************************)
(* check_submission, lines 199-206: the Submission is built from the post  *)
(***************************************************************************)
FromPost ==
    /\ pc = "idle"
    /\ \E p \in Posts :
           /\ post' = p
           /\ submission' = from_post(p, rezzes)
    /\ pc' = "query"
    /\ UNCHANGED << rezzes, moderators, db, image_urls, exc, fetched >>
    /\ UNCHANGED << run_vars, pairs >>

(***************************************************************************)
(* lines 207-222: a post that is already stored is skipped                 *)
(***************************************************************************)
Skip ==
    /\ pc = "query"
    /\ existing_submission
    /\ pc' = "skipped"
    /\ UNCHANGED << rezzes, moderators, db, post, submission, image_urls, exc, fetched >>
    /\ UNCHANGED << run_vars, pairs >>

(***************************************************************************)
(* lines 224-226: the author is a moderator.  PostResult.MODPOST is an     *)
(* attribute lookup on the enumeration: AttributeError when it has no such *)
(* member.                                                                 *)
(***************************************************************************)
ModPost ==
    /\ pc = "query"
    /\ ~existing_submission
    /\ submission.author \in moderators
    /\ IF "MODPOST" \in PostResult
       THEN /\ submission' = [submission EXCEPT !.type = "UNKNOWN",
                                                !.result = "MODPOST"]
            /\ pc' = "finish"
            /\ exc' = exc
       ELSE /\ submission' = [submission EXCEPT !.type = "UNKNOWN"]
            /\ pc' = "raised"
            /\ exc' = "AttributeError"
    /\ UNCHANGED << rezzes, moderators, db, post, image_urls, fetched >>
    /\ UNCHANGED << run_vars, pairs >>

(***************************************************************************)
(* lines 228-232, 258-260: the resolution guards and their handler         *)
(***************************************************************************)
CheckResolutions ==
    /\ pc = "query"
    /\ ~existing_submission
    /\ submission.author \notin moderators
    /\ LET postresult == resolution_guard(submission.res, submission.good_rezzes)
       IN  IF postresult # ""
           THEN /\ submission' = except_PostResultError(submission, postresult)
                /\ pc' = "finish"
           ELSE /\ submission' = submission
                /\ pc' = "resolve"
    /\ UNCHANGED << rezzes, moderators, db, post, image_urls, exc, fetched >>
    /\ UNCHANGED << run_vars, pairs >>

(***************************************************************************)
(* lines 234-255, 258-260: the urls are resolved and the type is set       *)
(***************************************************************************)
GetImageUrls ==
    /\ pc = "resolve"
    /\ \E hook \in BreakpointHooks :
       LET r == get_image_urls(post.link, hook)
       IN  IF r.raised = "PostResultError"
           THEN /\ submission' = except_PostResultError(submission, r.postresult)
                /\ pc' = "finish"
                /\ UNCHANGED << image_urls, exc >>
           ELSE IF r.raised # ""
           THEN /\ pc' = "raised"
                /\ exc' = r.raised
                /\ UNCHANGED << submission, image_urls >>
           ELSE /\ submission' =
                       [submission EXCEPT !.type = IF r.is_str THEN "IMAGE"
                                                   ELSE "GALLERY"]
                /\ image_urls' = r.urls
                /\ pc' = "images"
                /\ exc' = exc
    /\ UNCHANGED << rezzes, moderators, db, post, fetched >>
    /\ UNCHANGED << run_vars, pairs >>

(***************************************************************************)
(* check_image, lines 379-392: the Image is created, appended and opened   *)
(***************************************************************************)
CheckImageOpen ==
    /\ pc = "images"
    /\ more_images(submission.images, image_urls)
    /\ \E payload \in Payloads :
           LET url   == image_urls[Len(submission.images) + 1]
               image == open_image(Image(submission.postID, url), payload)
           IN  /\ submission' =
                       [submission EXCEPT !.images = Append(@, image)]
               /\ fetched' = Append(fetched, payload)
               /\ pc' = IF payload.format \in SUPPORTED_FORMATS
                        THEN "compare" ELSE "images"
    /\ UNCHANGED << rezzes, moderators, db, post, image_urls, exc >>
    /\ UNCHANGED << run_vars, pairs >>

(***************************************************************************)
(* check_image, lines 398-419: the dimensions are compared                 *)
(***************************************************************************)
CheckImageCompare ==
    /\ pc = "compare"
    /\ LET n == Len(submission.images)
       IN  submission' =
               [submission EXCEPT
                    !.images[n] = compare_image(@, submission.good_rezzes)]
    /\ pc' = "images"
    /\ UNCHANGED << rezzes, moderators, db, post, image_urls, exc, fetched >>
    /\ UNCHANGED << run_vars, pairs >>

(***************************************************************************)
(* lines 261-276: no PostResultError was raised; the results are reduced   *)
(***************************************************************************)
Aggregate ==
    /\ pc = "images"
    /\ ~more_images(submission.images, image_urls)
    /\ submission' = [submission EXCEPT !.result = aggregate(submission.images)]
    /\ pc' = "finish"
    /\ UNCHANGED << rezzes, moderators, db, post, image_urls, exc, fetched >>
    /\ UNCHANGED << run_vars, pairs >>

(***************************************************************************)
(* lines 278-299: dateProcessed, the (char, color) table, respond, DB.add  *)
(* and DB.commit.  The table is a dict literal whose first key is          *)
(* PostResult.MODPOST.                                                     *)
(***************************************************************************)
Finish ==
    /\ pc = "finish"
    /\ IF "MODPOST" \in PostResult
       THEN LET done == respond([submission EXCEPT !.dateProcessed = TRUE])
            IN  /\ submission' = done
                /\ db' = db \cup { Row(done) }
                /\ pc' = "returned"
                /\ exc' = exc
       ELSE /\ submission' = [submission EXCEPT !.dateProcessed = TRUE]
            /\ db' = db
            /\ pc' = "raised"
            /\ exc' = "AttributeError"
    /\ UNCHANGED << rezzes, moderators, post, image_urls, fetched >>
    /\ UNCHANGED << run_vars, pairs >>

Next ==
    \/ FromPost
    \/ Skip
    \/ ModPost
    \/ CheckResolutions
    \/ GetImageUrls
    \/ CheckImageOpen
    \/ CheckImageCompare
    \/ Aggregate
    \/ Finish

Spec == Init /\ [][Next]_vars

(***************************************************************************)
(* App.run, App._run_loop and App._run_specific: the program is started    *)
(* with a configuration and takes the posts of the listing one by one, or  *)
(* the posts whose ids the command line names, and calls check_submission. *)
(* An exception that leaves check_submission is caught nowhere: it ends    *)
(* the run.  The program may then be started again with the same store;    *)
(* every start calls init_db first, which empties the store under --drop.  *)
(***************************************************************************)
RunPostIDs == << "p1", "p2", "p3", "p4" >>

\* What the posts of a listing are like: author, title and link
RunPostKinds ==
    { [author |-> "user", title |-> << "[", "2", "x", "2", "]" >>,
       link |-> Link(<<>>, FALSE, "", "i.redd.it", "", <<>>)],
      [author |-> "mod", title |-> << "[", "2", "x", "2", "]" >>,
       link |-> Link(<<>>, FALSE, "", "i.redd.it", "", <<>>)],
      [author |-> "user", title |-> << "[", "2", "x", "2", "]" >>,
       link |-> Link(<<>>, FALSE, "", "imgur.com", "/", <<>>)],
      [author |-> "user", title |-> << "[", "2", "x", "2", "]" >>,
       link |-> Link(<<>>, FALSE, "", "example.com", "", <<>>)] }

\* The k-th post of a listing: the listing is newest first
RunPost(k, kind) ==
    [id |-> RunPostIDs[k], created |-> Len(RunPostIDs) - k,
     author |-> kind.author, title |-> kind.title, link |-> kind.link]

Listings ==
    UNION { { [k \in 1..n |-> RunPost(k, kinds[k])] :
                  kinds \in [1..n -> RunPostKinds] } : n \in 0..MaxListing }

\* The post ids a command line names, the first two ids in any order and
\* number: a listing of fewer posts leaves the later id without a post the
\* subreddit holds
PostIdArgs == SeqsUpTo({ RunPostIDs[1], RunPostIDs[2] }, MaxListing)

\* --count N (0: the option is absent; None and 0 are both false),
\* --stop-after, which _postid_or_datetime turns into a str or a datetime,
\* --drop: the starts of the program whose command line has the flag,
\* and posts: the post ids the command line names (<<>>: none).  With post
\* ids the other two options are absent or name the first post, and --drop
\* is given on none, either or both of the first two starts.
RunConfigs ==
    [count : 0..MaxListing,
     drop : SUBSET (1..MaxRuns),
     stop_after : { [kind |-> "none"] }
                  \cup { [kind |-> "str", id |-> RunPostIDs[k]] :
                             k \in 1..MaxListing }
                  \cup { [kind |-> "datetime",
                          timestamp |-> Len(RunPostIDs) - MaxListing] },
     posts : { <<>> }]
    \cup
    { [count |-> c.count, drop |-> drop, stop_after |-> c.stop_after,
       posts |-> ids] :
          c \in { [count |-> 0, stop_after |-> [kind |-> "none"]],
                  [count |-> 1,
                   stop_after |-> [kind |-> "str", id |-> RunPostIDs[1]]] },
          drop \in SUBSET {1, 2},
          ids \in PostIdArgs \ { <<>> } }

\* The record an earlier version of the program has stored for a post
StoredRow(id) ==
    [postID |-> id, result |-> "VALID", type |-> "IMAGE",
     images |-> << [postID |-> id, url |-> 1, format |-> "JPEG",
                    x |-> 2, y |-> 1, result |-> "VALID"] >>]

RunStoredTables ==
    { { StoredRow(RunPostIDs[k]) : k \in 1..n } : n \in 0..MaxListing }

InitRun ==
    /\ rezzes \in KnownGoodSets
    /\ moderators = Moderators
    /\ db \in RunStoredTables
    /\ post = NoPost
    /\ submission = NoSubmission
    /\ image_urls = <<>>
    /\ fetched = <<>>
    /\ pc = "start"
    /\ exc = ""
    /\ listing \in Listings
    /\ loop_i = 0
    /\ config \in RunConfigs
    /\ calls = <<>>
    /\ outcomes = <<>>
    /\ runs = 1
    /\ pairs = NoPairs

\* App.init_db: with --drop the tables are dropped and created again
\* (drop_all, create_all), which leaves the store empty; without it the
\* store is the one the database file holds
init_db == IF runs \in config.drop THEN {} ELSE db

(***************************************************************************)
(* App.run: init_db is called, and the run goes on in _run_specific when   *)
(* the command line names post ids, in _run_loop when it names none        *)
(***************************************************************************)
run ==
    /\ pc = "start"
    /\ db' = init_db
    /\ pc' = IF config.posts # <<>> THEN "specific" ELSE "loop"
    /\ UNCHANGED << rezzes, moderators, post, submission, image_urls, fetched,
                    exc, run_vars, pairs >>

\* What the call of check_submission that is over has left
Outcome ==
    [run |-> runs, post |-> post, fetched |-> fetched,
     result |-> submission.result, type |-> submission.type,
     images |-> submission.images, pc |-> pc, exc |-> exc]

(***************************************************************************)
(* _run_loop, lines 140-147, and check_submission, lines 199-206: the next *)
(* post is taken, the loop is left on the count or on the timestamp, or    *)
(* check_submission is called and builds its Submission                    *)
(***************************************************************************)
LoopStep ==
    /\ pc = "loop"
    /\ IF loop_i >= Len(listing)
       THEN /\ pc' = "done"
            /\ UNCHANGED << post, submission, image_urls, fetched, exc, calls >>
       ELSE LET p == listing[loop_i + 1]
            IN  IF \/ config.count # 0 /\ loop_i >= config.count
                   \/ /\ config.stop_after.kind = "datetime"
                      /\ p.created <= config.stop_after.timestamp
                THEN /\ pc' = "done"
                     /\ UNCHANGED << post, submission, image_urls, fetched,
                                     exc, calls >>
                ELSE /\ post' = p
                     /\ submission' = from_post(p, rezzes)
                     /\ image_urls' = <<>>
                     /\ fetched' = <<>>
                     /\ exc' = ""
                     /\ calls' = Append(calls, p.id)
                     /\ pc' = "query"
    /\ UNCHANGED << rezzes, moderators, db, listing, loop_i, config, outcomes,
                    runs, pairs >>

(***************************************************************************)
(* _run_loop, lines 148-151: check_submission has returned; the loop is    *)
(* left when the post is the one --stop-after names                        *)
(***************************************************************************)
LoopReturn ==
    /\ pc \in {"returned", "skipped"}
    /\ config.posts = <<>>
    /\ outcomes' = Append(outcomes, Outcome)
    /\ loop_i' = loop_i + 1
    /\ pc' = IF /\ config.stop_after.kind = "str"
                /\ post.id = config.stop_after.id
             THEN "done" ELSE "loop"
    /\ UNCHANGED << rezzes, moderators, db, post, submission, image_urls,
                    fetched, exc, listing, config, calls, runs, pairs >>

\* reddit.submission(id=post_id): the positions of the posts with that id
\* among the posts the subreddit holds
Retrieved(post_id) == { k \in 1..Len(listing) : listing[k].id = post_id }

(***************************************************************************)
(* _run_specific, lines 165-178, and check_submission, lines 199-206: the  *)
(* next post id is taken; a post that cannot be retrieved, or is from      *)
(* another subreddit, is logged and passed over; otherwise                 *)
(* check_submission is called and builds its Submission.  --count and      *)
(* --stop-after are not read.                                              *)
(***************************************************************************)
SpecificStep ==
    /\ pc = "specific"
    /\ IF loop_i >= Len(config.posts)
       THEN /\ pc' = "done"
            /\ UNCHANGED << post, submission, image_urls, fetched, exc, calls,
                            loop_i >>
       ELSE LET post_id == config.posts[loop_i + 1]
            IN  IF Retrieved(post_id) = {}
                THEN /\ loop_i' = loop_i + 1
                     /\ UNCHANGED << post, submission, image_urls, fetched, exc,
                                     calls, pc >>
                ELSE LET p == listing[CHOOSE k \in Retrieved(post_id) : TRUE]
                     IN  /\ post' = p
                         /\ submission' = from_post(p, rezzes)
                         /\ image_urls' = <<>>
                         /\ fetched' = <<>>
                         /\ exc' = ""
                         /\ calls' = Append(calls, p.id)
                         /\ pc' = "query"
                         /\ UNCHANGED loop_i
    /\ UNCHANGED << rezzes, moderators, db, listing, config, outcomes, runs,
                    pairs >>

\* _run_specific, line 178: check_submission has returned
SpecificReturn ==
    /\ pc \in {"returned", "skipped"}
    /\ config.posts # <<>>
    /\ outcomes' = Append(outcomes, Outcome)
    /\ loop_i' = loop_i + 1
    /\ pc' = "specific"
    /\ UNCHANGED << rezzes, moderators, db, post, submission, image_urls,
                    fetched, exc, listing, config, calls, runs, pairs >>

(***************************************************************************)
(* The run is over (the loop was left, or an exception ended the process)  *)
(* and the program is started again: App.__init__ with the same options,   *)
(* wiki page, listing and database file, up to the call of App.run         *)
(***************************************************************************)
Restart ==
    /\ pc \in {"done", "raised"}
    /\ runs < MaxRuns
    /\ outcomes' = IF pc = "raised" THEN Append(outcomes, Outcome) ELSE outcomes
    /\ runs' = runs + 1
    /\ loop_i' = 0
    /\ calls' = <<>>
    /\ post' = NoPost
    /\ submission' = NoSubmission
    /\ image_urls' = <<>>
    /\ fetched' = <<>>
    /\ exc' = ""
    /\ pc' = "start"
    /\ UNCHANGED << rezzes, moderators, db, listing, config, pairs >>

NextRun ==
    \/ run
    \/ LoopStep
    \/ SpecificStep
    \/ SpecificReturn
    \/ Skip
    \/ ModPost
    \/ CheckResolutions
    \/ GetImageUrls
    \/ CheckImageOpen
    \/ CheckImageCompare
    \/ Aggregate
    \/ Finish
    \/ LoopReturn
    \/ Restart

SpecRun == InitRun /\ [][NextRun]_vars

(***************************************************************************)
(* Submission.from_post with parse_title, on its own: the title is drawn   *)
(* from a larger set and the Submission is built from it.                  *)
(***************************************************************************)
TitlePieces ==
    { << "a" >>,
      << " " >>,
      << "[", "2", "x", "2", "]" >>,
      << "(", "4", "*", "1", ")" >>,
      << "[", "2", "MULT", "1", "]" >>,
      << "{", " ", "0", "6", " ", "X", " ", "1", " ", ")" >> }

RECURSIVE TitleInputsUpTo(_)
TitleInputsUpTo(n) ==
    IF n = 0 THEN { <<>> }
    ELSE LET T == TitleInputsUpTo(n - 1)
         IN  T \cup { t \o p : t \in T, p \in TitlePieces }

TitleInputs == TitleInputsUpTo(MaxTitlePieces)

InitTitle ==
    /\ rezzes \in KnownGoodSets
    /\ moderators = Moderators
    /\ db = {}
    /\ \E title \in TitleInputs :
           post = [id |-> "p1", author |-> "user", title |-> title,
                   link |-> Link(<<>>, FALSE, "", "i.redd.it", "", <<>>)]
    /\ submission = NoSubmission
    /\ image_urls = <<>>
    /\ fetched = <<>>
    /\ pc = "idle"
    /\ exc = ""
    /\ NoRun
    /\ pairs = NoPairs

\* obj = cls(...); obj.parse_title(known_good_rezzes); return obj
ParseTitle ==
    /\ pc = "idle"
    /\ submission' = from_post(post, rezzes)
    /\ pc' = "parsed"
    /\ UNCHANGED << rezzes, moderators, db, post, image_urls, fetched, exc >>
    /\ UNCHANGED << run_vars, pairs >>

\* Submission.title_to_res_pairs(title), for the title just parsed
TitleToResPairs ==
    /\ pc = "parsed"
    /\ pairs' = title_to_res_pairs(submission.title)
    /\ pc' = "paired"
    /\ UNCHANGED << rezzes, moderators, db, post, submission, image_urls,
                    fetched, exc, run_vars >>

NextTitle ==
    \/ ParseTitle
    \/ TitleToResPairs

SpecTitle == InitTitle /\ [][NextTitle]_vars

\* check_submission is over: it returned, skipped the post, or raised
Ended == pc \in {"returned", "skipped", "raised"}

(***************************************************************************)
(* Vocabulary of the properties                                            *)
(***************************************************************************)
\* check_submission went past the query for a stored record
Processed == pc \notin {"idle", "query", "skipped"}

\* The title holds at least one match of the pattern
HasMarker(title) == \E i \in 1..Len(title) : res_pattern(title, i).ok

\* Scale s is accepted for (w, h)
Accepted(w, h, s) == << w \div s, h >> \in rezzes

\* The tokens of the title that stand for a marker
MarkerTokens ==
    { k \in 1..Len(submission.title_tokens) :
          submission.title_tokens[k].width # None }

\* check_image has returned for the k-th Image
Checked(k) ==
    /\ k \in 1..Len(submission.images)
    /\ (k < Len(submission.images) \/ pc # "compare")

Decoded(k) == fetched[k].format \in SUPPORTED_FORMATS

Dominates(x, y, r) == x >= r[1] /\ y >= r[2]

\* The else branch of check_submission has reduced the image results
Aggregated ==
    /\ pc \in {"finish", "returned", "raised"}
    /\ submission.type \in {"IMAGE", "GALLERY"}
    /\ submission.result # Unset

ResultsOf(images) == { images[k].result : k \in 1..Len(images) }

Orders(n) ==
    { f \in [1..n -> 1..n] : \A a, b \in 1..n : f[a] = f[b] => a = b }

Permuted(images, f) == [k \in 1..Len(images) |-> images[f[k]]]

(***************************************************************************)
(* C1.  A post by a non-moderator that is not stored yet and whose title   *)
(* holds no resolution marker gets result NO_RESOLUTION and type UNKNOWN:  *)
(* no url is resolved, no Image is created, and check_submission goes      *)
(* straight to its final statements.                                       *)
(***************************************************************************)
C1_NoMarkerNoResolution ==
    (/\ Processed
     /\ submission.author \notin moderators
     /\ ~HasMarker(submission.title))
    => /\ pc \in {"finish", "returned", "raised"}
       /\ submission.result = "NO_RESOLUTION"
       /\ submission.images = <<>>
       /\ image_urls = <<>>
       /\ fetched = <<>>

C1_Witness ==
    /\ Ended
    /\ pc # "skipped"
    /\ submission.author \notin moderators
    /\ submission.title # <<>>
    /\ ~HasMarker(submission.title)
    /\ submission.result = "NO_RESOLUTION"

(***************************************************************************)
(* C2.  A declared (w, h) with none of (w // 1, h), (w // 2, h),           *)
(* (w // 3, h) known-good is not put in good_rezzes by its marker, and a   *)
(* non-moderator post with at least one declared resolution, all of that   *)
(* kind, gets result UNSUPPORTED_RES with no Image.                        *)
(***************************************************************************)
NoScale(r) == \A s \in 1..3 : ~Accepted(r[1], r[2], s)

C2_UnsupportedRes ==
    /\ pc # "idle" =>
           \A k \in 1..Len(submission.res) :
               NoScale(submission.res[k]) =>
                   submission.res[k] \notin submission.good_rezzes
    /\ (/\ Processed
        /\ submission.author \notin moderators
        /\ submission.res # <<>>
        /\ \A k \in 1..Len(submission.res) : NoScale(submission.res[k]))
       => /\ pc \in {"finish", "returned", "raised"}
          /\ submission.good_rezzes = {}
          /\ submission.result = "UNSUPPORTED_RES"
          /\ submission.images = <<>>

C2_Witness ==
    /\ Ended
    /\ pc # "skipped"
    /\ submission.author \notin moderators
    /\ Len(submission.res) >= 1
    /\ \A k \in 1..Len(submission.res) : NoScale(submission.res[k])
    /\ submission.result = "UNSUPPORTED_RES"

(***************************************************************************)
(* C3.  Every marker token carries the smallest scale in 1..3 that is      *)
(* accepted for its (width, height), and scale 0 when none is.             *)
(***************************************************************************)
C3_SmallestScale ==
    \A k \in MarkerTokens :
        LET tok == submission.title_tokens[k]
        IN  IF \E s \in 1..3 : Accepted(tok.width, tok.height, s)
            THEN /\ tok.scale \in 1..3
                 /\ Accepted(tok.width, tok.height, tok.scale)
                 /\ \A s \in 1..3 :
                        s < tok.scale => ~Accepted(tok.width, tok.height, s)
            ELSE tok.scale = 0

\* an exact match that would also pass as a dual-monitor declaration
C3_Witness ==
    \E k \in MarkerTokens :
        LET tok == submission.title_tokens[k]
        IN  /\ tok.scale = 1
            /\ Accepted(tok.width, tok.height, 2)

(***************************************************************************)
(* C4.  good_rezzes is exactly the set of the original (width, height)     *)
(* pairs of the markers with an accepted scale: a marker accepted at scale *)
(* 2 or 3 contributes its unscaled pair, and the divided pair is in        *)
(* good_rezzes only when a marker declares it itself.  The title (4*1)     *)
(* with (2, 1) known-good and (4, 1) not gives good_rezzes = {(4, 1)}.     *)
(***************************************************************************)
C4_UnscaledPairRecorded ==
    /\ submission.good_rezzes =
           { << submission.title_tokens[k].width,
                submission.title_tokens[k].height >> :
                 k \in { m \in MarkerTokens :
                             submission.title_tokens[m].scale # 0 } }
    /\ (/\ submission.title = << "(", "4", "*", "1", ")" >>
        /\ << 2, 1 >> \in rezzes
        /\ << 4, 1 >> \notin rezzes)
       => submission.good_rezzes = { << 4, 1 >> }

C4_Witness ==
    /\ \E k \in MarkerTokens : submission.title_tokens[k].scale \in {2, 3}
    /\ submission.title = << "(", "4", "*", "1", ")" >>
    /\ submission.good_rezzes = { << 4, 1 >> }

(***************************************************************************)
(* C5.  Once check_image has returned for an image that was decoded, the   *)
(* image carries the decoded dimensions, and its result is VALID exactly   *)
(* when (x, y) is a member of good_rezzes.                                 *)
(***************************************************************************)
C5_ValidIffMember ==
    \A k \in 1..Len(submission.images) :
        (Checked(k) /\ Decoded(k)) =>
            /\ submission.images[k].x = fetched[k].width
            /\ submission.images[k].y = fetched[k].height
            /\ (submission.images[k].result = "VALID"
                <=> << fetched[k].width, fetched[k].height >>
                        \in submission.good_rezzes)

C5_Witness ==
    /\ \E k \in 1..Len(submission.images) :
           /\ Checked(k) /\ Decoded(k)
           /\ submission.images[k].result = "VALID"
    /\ \E k \in 1..Len(submission.images) :
           /\ Checked(k) /\ Decoded(k)
           /\ submission.images[k].result # "VALID"
           /\ \E r \in submission.good_rezzes :
                  Dominates(submission.images[k].x, submission.images[k].y, r)

(***************************************************************************)
(* C6.  A decoded image whose (x, y) is not in good_rezzes is LARGER when  *)
(* it is at least as big, in both dimensions, as some member of            *)
(* good_rezzes, and SMALLER when it is so for no member.                   *)
(***************************************************************************)
C6_LargerIffDominatesSome ==
    \A k \in 1..Len(submission.images) :
        (/\ Checked(k) /\ Decoded(k)
         /\ << fetched[k].width, fetched[k].height >>
                \notin submission.good_rezzes)
        => submission.images[k].result =
               IF \E r \in submission.good_rezzes :
                      Dominates(fetched[k].width, fetched[k].height, r)
               THEN "LARGER"
               ELSE "SMALLER"

\* LARGER although another member of good_rezzes is not dominated
C6_Witness ==
    \E k \in 1..Len(submission.images) :
        /\ Checked(k) /\ Decoded(k)
        /\ submission.images[k].result = "LARGER"
        /\ \E r \in submission.good_rezzes :
               ~Dominates(submission.images[k].x, submission.images[k].y, r)

(***************************************************************************)
(* C7.  An image whose payload is none of the supported raster formats     *)
(* has result UNSUPPORTED_MEDIA_TYPE and x = 0, y = 0, and the comparison  *)
(* step is never entered for it.                                           *)
(***************************************************************************)
C7_UnsupportedMediaType ==
    /\ \A k \in 1..Len(submission.images) :
           ~Decoded(k) =>
               /\ submission.images[k].result = "UNSUPPORTED_MEDIA_TYPE"
               /\ submission.images[k].x = 0
               /\ submission.images[k].y = 0
    /\ pc = "compare" => Decoded(Len(submission.images))

(***************************************************************************)
(* C8.  After the reduction, the result of the submission is SMALLER if    *)
(* any image is SMALLER, else UNSUPPORTED_MEDIA_TYPE if any image is that, *)
(* else LARGER if any image is LARGER, else VALID.                         *)
(***************************************************************************)
HighestSeverity(results) ==
    IF "SMALLER" \in results THEN "SMALLER"
    ELSE IF "UNSUPPORTED_MEDIA_TYPE" \in results THEN "UNSUPPORTED_MEDIA_TYPE"
    ELSE IF "LARGER" \in results THEN "LARGER"
    ELSE "VALID"

C8_HighestSeverityWins ==
    Aggregated =>
        submission.result = HighestSeverity(ResultsOf(submission.images))

\* the most severe result is neither the first nor the last image's
C8_Witness ==
    /\ Aggregated
    /\ Len(submission.images) = 3
    /\ submission.images[1].result = "LARGER"
    /\ submission.images[2].result = "SMALLER"
    /\ submission.images[3].result = "UNSUPPORTED_MEDIA_TYPE"
    /\ submission.result = "SMALLER"

(***************************************************************************)
(* C9.  The reduction gives the same result for every order of the same    *)
(* images.                                                                 *)
(***************************************************************************)
C9_OrderIndependent ==
    Aggregated =>
        \A f \in Orders(Len(submission.images)) :
            aggregate(Permuted(submission.images, f)) = submission.result

C9_Witness ==
    /\ Aggregated
    /\ Len(submission.images) = 3
    /\ submission.images[1].result = "VALID"
    /\ submission.images[2].result = "LARGER"
    /\ submission.images[3].result = "SMALLER"
    /\ submission.result = "SMALLER"

(***************************************************************************)
(* C10.  A submission whose author is a moderator ends check_submission    *)
(* with result MODPOST, a member of PostResult, and type UNKNOWN, with no  *)
(* url resolved and no Image created.                                      *)
(***************************************************************************)
C10_ModPost ==
    (/\ Ended
     /\ pc # "skipped"
     /\ submission.author \in moderators)
    => /\ "MODPOST" \in PostResult
       /\ submission.result = "MODPOST"
       /\ submission.type = "UNKNOWN"
       /\ submission.images = <<>>
       /\ image_urls = <<>>

\* The results a PostResultError carries
FatalResults == {"NO_RESOLUTION", "UNSUPPORTED_RES", "UNSUPPORTED_TYPE_OR_LINK"}

\* The post a chain of crossposts leads to
RECURSIVE Leaf(_)
Leaf(link) ==
    IF link.crosspost_parent # <<>> THEN Leaf(link.crosspost_parent[1]) ELSE link

\* Neither a gallery nor an image, and either the domain is not one of the two
\* hosts the resolver knows or the url matches none of that host's patterns
Unclassifiable(link) ==
    LET l == Leaf(link)
    IN  /\ ~l.is_gallery
        /\ l.post_hint # "image"
        /\ l.domain # "i.redd.it"
        /\ (l.domain \notin {"imgur.com", "flickr.com"} \/ l.url = "/")

(***************************************************************************)
(* C11.  While the submission holds one of the results a PostResultError   *)
(* carries (NO_RESOLUTION, UNSUPPORTED_RES, UNSUPPORTED_TYPE_OR_LINK), and *)
(* so when check_submission ends with it, no Image has been created, no    *)
(* image has been fetched, no url is held, and the type is UNKNOWN.        *)
(***************************************************************************)
C11_FatalMeansNoImage ==
    submission.result \in FatalResults
    => /\ submission.images = <<>>
       /\ fetched = <<>>
       /\ image_urls = <<>>
       /\ submission.type = "UNKNOWN"

\* check_submission has ended for a post on an unknown domain whose title
\* declares a known-good resolution: the result is UNSUPPORTED_TYPE_OR_LINK
C11_Witness ==
    /\ Ended
    /\ Leaf(post.link).domain = "example.com"
    /\ submission.good_rezzes # {}
    /\ submission.result = "UNSUPPORTED_TYPE_OR_LINK"
    /\ submission.type = "UNKNOWN"
    /\ submission.images = <<>>

(***************************************************************************)
(* C12.  When check_submission has ended for a post that is not stored,    *)
(* whose author is no moderator, whose good_rezzes is not empty and whose  *)
(* link the resolver cannot classify, the submission holds the result      *)
(* UNSUPPORTED_TYPE_OR_LINK.                                               *)
(***************************************************************************)
C12_UnclassifiableIsAValue ==
    (/\ Ended
     /\ pc # "skipped"
     /\ submission.author \notin moderators
     /\ submission.good_rezzes # {}
     /\ Unclassifiable(post.link))
    => submission.result = "UNSUPPORTED_TYPE_OR_LINK"

(***************************************************************************)
(* C13.  When the results of a gallery have been reduced, the submission   *)
(* owns one Image per resolved url, in the order of the urls, each fetched *)
(* and each with a result: an image that is rejected does not keep the     *)
(* images after it from being checked.                                     *)
(***************************************************************************)
C13_GalleryImages ==
    (Aggregated /\ submission.type = "GALLERY")
    => /\ Len(submission.images) = Len(image_urls)
       /\ Len(fetched) = Len(image_urls)
       /\ \A k \in 1..Len(image_urls) :
              /\ submission.images[k].url = image_urls[k]
              /\ submission.images[k].postID = submission.postID
              /\ submission.images[k].result \in ImageResult

\* A gallery of three whose first image is not decodable and whose second is
\* too small: the third has been checked all the same
C13_Witness ==
    /\ Aggregated
    /\ submission.type = "GALLERY"
    /\ Len(image_urls) = 3
    /\ Len(submission.images) = 3
    /\ submission.images[1].result = "UNSUPPORTED_MEDIA_TYPE"
    /\ submission.images[2].result = "SMALLER"
    /\ submission.images[3].result = "LARGER"

(***************************************************************************)
(* C17.  A submission whose image results have been reduced owns at least  *)
(* one Image.                                                              *)
(***************************************************************************)
C17_AggregationHasImage ==
    Aggregated => Len(submission.images) >= 1

(***************************************************************************)
(* C18 as stated.  Once an Image has a result, no step changes it: the     *)
(* result is written once.                                                 *)
(***************************************************************************)
C18_SingleWrite ==
    [][\A k \in 1..Len(submission.images) :
           submission.images[k].result # Unset
           => /\ k <= Len(submission'.images)
              /\ submission'.images[k].result = submission.images[k].result]_vars

(***************************************************************************)
(* C18, amended.  Once check_image has returned for an Image, no step      *)
(* changes its result.  While check_image is between the decoding and the  *)
(* comparison, the Image holds VALID, and the comparison keeps it or       *)
(* replaces it by LARGER or SMALLER: a second write.                       *)
(***************************************************************************)
C18_ResultFinalOnReturn ==
    [][\A k \in 1..Len(submission.images) :
           /\ k <= Len(submission'.images)
           /\ Checked(k)
              => submission'.images[k].result = submission.images[k].result
           /\ ~Checked(k)
              => /\ submission.images[k].result = "VALID"
                 /\ submission'.images[k].result \in {"VALID", "LARGER", "SMALLER"}
                 /\ submission'.images[k].result = "VALID"
                    <=> << submission.images[k].x, submission.images[k].y >>
                            \in submission.good_rezzes]_vars

\* check_image has returned for two images; the result of the first was
\* written twice
C18_Witness ==
    /\ pc = "images"
    /\ Len(submission.images) = 2
    /\ submission.images[1].result = "LARGER"
    /\ submission.images[2].result = "VALID"

(***************************************************************************)
(* C19.  While the submission holds a result, check_image is not running   *)
(* and every resolved url has its Image with a result; on the exits of the *)
(* handler there is no url and no Image.                                   *)
(***************************************************************************)
C19_ResultAfterAllImages ==
    submission.result # Unset
    => /\ pc # "compare"
       /\ Len(submission.images) = Len(image_urls)
       /\ \A k \in 1..Len(submission.images) :
              submission.images[k].result \in ImageResult
       /\ submission.type = "UNKNOWN" => submission.images = <<>>

\* The result of a gallery of two has been fixed after both were checked
C19_Witness ==
    /\ pc = "finish"
    /\ submission.type = "GALLERY"
    /\ Len(image_urls) = 2
    /\ Len(submission.images) = 2
    /\ submission.images[1].result = "SMALLER"
    /\ submission.images[2].result = "VALID"
    /\ submission.result = "SMALLER"

\* The text of the tokens from the k-th on, concatenated
RECURSIVE joined(_, _)
joined(tokens, k) ==
    IF k > Len(tokens) THEN <<>> ELSE tokens[k].value \o joined(tokens, k + 1)

\* The matches of the pattern in t from index i on, leftmost first, none
\* overlapping another
RECURSIVE Occurrences(_, _)
Occurrences(t, i) ==
    IF i > Len(t) THEN <<>>
    ELSE LET m == res_pattern(t, i)
         IN  IF m.ok THEN << m >> \o Occurrences(t, m.end + 1)
             ELSE Occurrences(t, i + 1)

IsMarkerToken(token) == token.width # None

\* from_post has built the Submission of the title on its own
Parsed == pc \in {"parsed", "paired"}

(***************************************************************************)
(* C14.  The texts of the tokens parse_title produces, concatenated in     *)
(* order, are the title of the Submission, character for character.        *)
(***************************************************************************)
C14_TokensSpellTitle ==
    Parsed => joined(submission.title_tokens, 1) = submission.title

\* A title with text before, between and after two markers
C14_Witness ==
    /\ Parsed
    /\ Len(submission.title_tokens) = 5
    /\ ~IsMarkerToken(submission.title_tokens[1])
    /\ IsMarkerToken(submission.title_tokens[2])
    /\ submission.title_tokens[3].value = << " " >>
    /\ IsMarkerToken(submission.title_tokens[4])
    /\ ~IsMarkerToken(submission.title_tokens[5])

(***************************************************************************)
(* C15.  res lists the width and height of every occurrence of a marker in *)
(* the title, one entry per occurrence in title order, and the marker      *)
(* tokens are these occurrences in the same order: a marker that occurs    *)
(* twice is listed twice.                                                  *)
(***************************************************************************)
C15_OneEntryPerMarker ==
    Parsed
    => LET occ     == Occurrences(submission.title, 1)
           markers == SelectSeq(submission.title_tokens, IsMarkerToken)
       IN  /\ Len(submission.res) = Len(occ)
           /\ Len(markers) = Len(occ)
           /\ \A k \in 1..Len(occ) :
                  /\ submission.res[k] = << int(occ[k].g2), int(occ[k].g3) >>
                  /\ markers[k].value = occ[k].g1
                  /\ << markers[k].width, markers[k].height >> = submission.res[k]

\* The same marker twice, with text between
C15_Witness ==
    /\ Parsed
    /\ Len(submission.res) = 2
    /\ submission.res[1] = submission.res[2]
    /\ Len(submission.title_tokens) = 3
    /\ submission.title_tokens[1] = submission.title_tokens[3]
    /\ IsMarkerToken(submission.title_tokens[1])

\* The separators of a marker: x, X, * and the multiplication sign U+00D7
SpecSeparators == {"x", "X", "*", "MULT"}

(***************************************************************************)
(* C16.  A marker made of a bracket, a digit, a separator, a digit and a   *)
(* bracket is a declared resolution of the title when the separator is x,  *)
(* X, * or the multiplication sign.                                        *)
(***************************************************************************)
C16_SeparatorsRecognised ==
    Parsed
    => \A i \in 1..Len(submission.title) :
           (/\ i + 4 <= Len(submission.title)
            /\ submission.title[i] \in OpenBrackets
            /\ IsDigit(submission.title[i + 1])
            /\ submission.title[i + 2] \in SpecSeparators
            /\ IsDigit(submission.title[i + 3])
            /\ submission.title[i + 4] \in CloseBrackets)
           => \E k \in 1..Len(submission.res) :
                  submission.res[k] = << DigitVal(submission.title[i + 1]),
                                         DigitVal(submission.title[i + 3]) >>

(***************************************************************************)
(* C20.  Every pair in good_rezzes is one of the pairs listed in res.      *)
(***************************************************************************)
C20_GoodSubsetOfRes ==
    Parsed
    => submission.good_rezzes
           \subseteq { submission.res[k] : k \in 1..Len(submission.res) }

\* Two declared resolutions, of which only the triple-monitor one is good
C20_Witness ==
    /\ Parsed
    /\ submission.res = << << 2, 2 >>, << 6, 1 >> >>
    /\ submission.good_rezzes = { << 6, 1 >> }
    /\ << 6, 1 >> \notin rezzes

(***************************************************************************)
(* C22.  When check_submission has ended for a post that was not stored,   *)
(* it has returned, the Submission has its result and its dateProcessed,   *)
(* and the store holds its record.                                         *)
(***************************************************************************)
C22_ReachesPersistence ==
    (Ended /\ pc # "skipped")
    => /\ pc = "returned"
       /\ submission.result \in PostResult \cup {"MODPOST"}
       /\ submission.dateProcessed
       /\ \E row \in db : /\ row.postID = submission.postID
                           /\ row.result = submission.result

(***************************************************************************)
(* C26.  title_to_res_pairs returns, without raising, the list of pairs    *)
(* that parse_title has stored in res for the same title.                  *)
(***************************************************************************)
C26_PairsEqualRes ==
    pc = "paired"
    => /\ pairs.raised = ""
       /\ pairs.rezzes = submission.res

\* The run is over: the loop was left, or an exception ended the process
RunOver == pc \in {"done", "raised"}

Min(a, b) == IF a <= b THEN a ELSE b

\* The ids of the first n posts of the listing
FirstIds(n) == [k \in 1..n |-> listing[k].id]

\* The two calls were given the same images as far as both fetched any
SameImages(f, g) == \A k \in 1..Min(Len(f), Len(g)) : f[k] = g[k]

\* The store holds a record for the post check_submission was called with
Stored == \E row \in db : row.postID = post.id

\* The store has not been emptied between the earlier call and this one:
\* no start of the program after the earlier call's was given --drop
NotDroppedSince(earlier) == \A r \in (earlier + 1)..runs : r \notin config.drop

(***************************************************************************)
(* C21.  When a call of check_submission has ended and an earlier call was *)
(* given the same post, with the same known-good set and the same images   *)
(* (and nothing but the calls has touched the store in between: it has not *)
(* been dropped), the Submission holds the same result, the same type and  *)
(* the same Images with the same results as the earlier call left.         *)
(***************************************************************************)
C21_SecondCallSameOutcome ==
    Ended
    => \A k \in 1..Len(outcomes) :
           (/\ outcomes[k].post = post
            /\ SameImages(outcomes[k].fetched, fetched)
            /\ NotDroppedSince(outcomes[k].run))
           => /\ outcomes[k].result = submission.result
              /\ outcomes[k].type = submission.type
              /\ outcomes[k].images = submission.images

(***************************************************************************)
(* C23.  The store never holds two records with the same postID; a call    *)
(* for a post whose postID is stored is skipped, with no url resolved, no  *)
(* image fetched, no Image created and the store left as it was; and no    *)
(* step of a call removes or changes a stored record (App.run, which       *)
(* empties the store under --drop, is no step of a call).                  *)
(***************************************************************************)
C23_OneRecordPerPost ==
    /\ [](\A r1, r2 \in db : r1.postID = r2.postID => r1 = r2)
    /\ [][(pc = "query" /\ Stored)
           => /\ pc' = "skipped"
              /\ db' = db
              /\ image_urls' = <<>>
              /\ fetched' = <<>>
              /\ submission'.images = <<>>]_vars
    /\ [][pc # "start" => \A row \in db : row \in db']_vars

\* The second of two calls in a row for stored posts has been skipped
C23_Witness ==
    /\ pc = "skipped"
    /\ Len(calls) = 2
    /\ Stored
    /\ Len(outcomes) >= 1
    /\ outcomes[Len(outcomes)].pc = "skipped"
    /\ image_urls = <<>>

(***************************************************************************)
(* C24.  When a run of _run_loop (no post ids on the command line) with    *)
(* --count N (N >= 1) and no --stop-after is over, check_submission has    *)
(* been called on the first min(N, length of the listing) posts, in        *)
(* listing order, and on no other post.                                    *)
(***************************************************************************)
C24_CountLimitsCalls ==
    (/\ RunOver
     /\ config.posts = <<>>
     /\ config.count >= 1
     /\ config.stop_after.kind = "none")
    => calls = FirstIds(Min(config.count, Len(listing)))

(***************************************************************************)
(* C25.  When a run of _run_loop (no post ids on the command line) with    *)
(* --stop-after ID is over and the listing holds the post with that id at  *)
(* position k, check_submission has been called on                         *)
(* the first k posts (the first N of them under --count N with N < k), in  *)
(* listing order, and on no post after the k-th.                           *)
(***************************************************************************)
C25_StopsAfterPost ==
    (/\ RunOver
     /\ config.posts = <<>>
     /\ config.stop_after.kind = "str")
    => \A k \in 1..Len(listing) :
           listing[k].id = config.stop_after.id
           => calls = FirstIds(IF config.count # 0
                               THEN Min(config.count, k) ELSE k)

====
